---------------------------- MODULE Spec2Model ----------------------------
(***************************************************************************)
(* Model of ZendeskClient (src/src/zendesk_mcp_server/zendesk_client.py).  *)
(*                                                                         *)
(* Strings the caller or the vendor supplies are sequences of one-char     *)
(* strings, so that strip(), isdigit(), truthiness and str(int) are        *)
(* computed as Python computes them.  Literal fragments the code itself    *)
(* writes ("type:ticket", "status<solved", ...) are single elements of     *)
(* such a sequence.  An Optional value is <<>> (None) or <<v>>.            *)
(* Time is counted in whole hours.                                         *)
(***************************************************************************)
EXTENDS Integers, Sequences, FiniteSets

VARIABLES
    pc,        \* "ready": a call is about to run; "done": it has returned or raised
    op,        \* name of the operation of the current / last call
    args,      \* the caller's arguments of that call
    env,       \* what the collaborators (clock, HTTP layer, SDK) answer during it
    request,   \* get_tickets: the request handed to urlopen, <<>> before that
    result,    \* <<>> before the call ends, then <<[raised |-> ..., ...]>>
    tickets,   \* vendor side: ticket id -> <<>> (absent) or <<ticket record>>
    nextId,    \* vendor side: id the next created ticket gets
    before,    \* vendor side: `tickets` as it was when the last call started
    calls      \* number of SDK-backed calls made so far

vars == <<pc, op, args, env, request, result, tickets, nextId, before, calls>>

---------------------------------------------------------------------------
(* Bounds of the model *)

MaxPage == 2
MaxOver == 2
MaxHours == 1
MaxSkew == 1
MaxResults == 2
MaxItemId == 2
MaxTickets == 2
MaxComments == 1
MaxCalls == 3

(* Program constant: the per_page cap *)
MaxPerPage == 100

---------------------------------------------------------------------------
(* Python values *)

None == <<>>
Some(v) == <<v>>
IsNone(o) == Len(o) = 0
Val(o) == o[1]

\* bool(s) of an Optional[str]: None and "" are falsy
Truthy(o) == ~IsNone(o) /\ Len(Val(o)) > 0

DigitChars == <<"0", "1", "2", "3", "4", "5", "6", "7", "8", "9">>
IsDigitChar(c) == \E i \in 1..Len(DigitChars) : DigitChars[i] = c
IsSpaceChar(c) == c = " "

RECURSIVE NatStr(_)
NatStr(n) ==
    IF n < 10 THEN <<DigitChars[n + 1]>>
    ELSE NatStr(n \div 10) \o <<DigitChars[(n % 10) + 1]>>

\* str(n) of an int
Str(n) == IF n < 0 THEN <<"-">> \o NatStr(-n) ELSE NatStr(n)

RECURSIVE LStrip(_)
LStrip(s) ==
    IF Len(s) > 0 /\ IsSpaceChar(s[1]) THEN LStrip(Tail(s)) ELSE s

RECURSIVE RStrip(_)
RStrip(s) ==
    IF Len(s) > 0 /\ IsSpaceChar(s[Len(s)])
    THEN RStrip(SubSeq(s, 1, Len(s) - 1)) ELSE s

\* str.strip()
Strip(s) == RStrip(LStrip(s))

\* str.isdigit()
IsDigit(s) == Len(s) > 0 /\ \A i \in 1..Len(s) : IsDigitChar(s[i])

\* min(a, b)
Min(a, b) == IF a <= b THEN a ELSE b

RECURSIVE Join(_, _)
\* sep.join(parts)
Join(parts, sep) ==
    IF Len(parts) = 0 THEN <<>>
    ELSE IF Len(parts) = 1 THEN parts[1]
    ELSE parts[1] \o sep \o Join(Tail(parts), sep)

\* dt.isoformat() of an aware UTC datetime, t hours after the epoch
IsoFormat(t) == Str(t) \o <<"+00:00">>

\* s.replace("+00:00", "Z")
ReplaceUtcOffset(s) == [i \in 1..Len(s) |-> IF s[i] = "+00:00" THEN "Z" ELSE s[i]]

\* (now - timedelta(hours=int(h))).isoformat().replace("+00:00", "Z")
HoursAgo(now, h) == ReplaceUtcOffset(IsoFormat(now - h))

---------------------------------------------------------------------------
(* get_tickets *)

\* the cap applied one too high
CapPerPageOffByOne(per_page) == Min(per_page, MaxPerPage + 1)

CapPerPage(per_page) == Min(per_page, MaxPerPage)

\* the search test with the hour filters tested for truthiness, like the strings
UseSearchTruthyHours(a) ==
    \/ Truthy(a.agent)
    \/ Truthy(a.organization)
    \/ Truthy(a.updated_since)
    \/ (~IsNone(a.last_hours) /\ Val(a.last_hours) # 0)
    \/ (~IsNone(a.stale_hours) /\ Val(a.stale_hours) # 0)

UseSearch(a) ==
    \/ Truthy(a.agent)
    \/ Truthy(a.organization)
    \/ Truthy(a.updated_since)
    \/ ~IsNone(a.last_hours)
    \/ ~IsNone(a.stale_hours)

AgentParts(a) ==
    IF Truthy(a.agent)
    THEN LET agent_str == Strip(Val(a.agent))
         IN  IF IsDigit(agent_str)
             THEN << <<"assignee_id:">> \o agent_str >>
             ELSE << <<"assignee:", "\"">> \o agent_str \o <<"\"">> >>
    ELSE <<>>

OrganizationParts(a) ==
    IF Truthy(a.organization)
    THEN << <<"organization:", "\"">> \o Strip(Val(a.organization)) \o <<"\"">> >>
    ELSE <<>>

UpdatedBefore(a, e) ==
    IF ~IsNone(a.stale_hours)
    THEN Some(HoursAgo(e.now, Val(a.stale_hours)))
    ELSE None

\* the status restriction appended whenever stale_hours is given
StatusPartsAlways(a) ==
    IF ~IsNone(a.stale_hours)
    THEN << <<"status<solved">> >>
    ELSE <<>>

StatusParts(a) ==
    IF ~IsNone(a.stale_hours) /\ ~a.include_solved
    THEN << <<"status<solved">> >>
    ELSE <<>>

\* last_hours applied only when the caller gave no updated_since
EffectiveUpdatedSinceKeepExplicit(a, e) ==
    IF ~IsNone(a.last_hours) /\ ~Truthy(a.updated_since)
    THEN Some(HoursAgo(e.now + e.skew, Val(a.last_hours)))
    ELSE a.updated_since

\* updated_since after the "Apply updated constraints" step; the clock is read
\* a second time there, e.skew hours after the first reading
EffectiveUpdatedSince(a, e) ==
    IF ~IsNone(a.last_hours)
    THEN Some(HoursAgo(e.now + e.skew, Val(a.last_hours)))
    ELSE a.updated_since

UpdatedBeforeParts(a, e) ==
    IF Truthy(UpdatedBefore(a, e))
    THEN << <<"updated<">> \o Val(UpdatedBefore(a, e)) >>
    ELSE <<>>

UpdatedSinceParts(a, e) ==
    IF Truthy(EffectiveUpdatedSince(a, e))
    THEN << <<"updated>">> \o Strip(Val(EffectiveUpdatedSince(a, e))) >>
    ELSE <<>>

QueryParts(a, e) ==
    << <<"type:ticket">> >> \o AgentParts(a) \o OrganizationParts(a)
        \o StatusParts(a) \o UpdatedBeforeParts(a, e) \o UpdatedSinceParts(a, e)

Query(a, e) == Join(QueryParts(a, e), <<" ">>)

SearchRequest(a, e) ==
    [path |-> "/search.json",
     params |-> [query |-> Query(a, e),
                 page |-> Str(a.page),
                 per_page |-> Str(CapPerPage(a.per_page)),
                 sort_by |-> a.sort_by,
                 sort_order |-> a.sort_order]]

ListRequest(a) ==
    [path |-> "/tickets.json",
     params |-> [page |-> Str(a.page),
                 per_page |-> Str(CapPerPage(a.per_page)),
                 sort_by |-> a.sort_by,
                 sort_order |-> a.sort_order]]

\* the dict built from one vendor entry with item.get(...): a missing field is None
TicketSummary(item) == [id |-> item.id, subject |-> item.subject]

\* the guard keeping only entries that declare result_type "ticket"
IsTicketResultStrict(item) == item.result_type = Some("ticket")

\* the "Guard: only tickets" test of the search loop
IsTicketResult(item) ==
    IsNone(item.result_type) \/ item.result_type = Some("ticket")

RECURSIVE SearchTicketList(_)
SearchTicketList(results) ==
    IF Len(results) = 0 THEN <<>>
    ELSE IF ~IsTicketResult(results[1]) THEN SearchTicketList(Tail(results))
    ELSE <<TicketSummary(results[1])>> \o SearchTicketList(Tail(results))

DirectTicketList(tickets_data) ==
    [i \in 1..Len(tickets_data) |-> TicketSummary(tickets_data[i])]

HasMore(data) == ~IsNone(data.next_page)

NextPage(page, data) == IF Truthy(data.next_page) THEN Some(page + 1) ELSE None

\* the search path gated on the vendor flag, as the direct path is
SearchPreviousPageGated(page, data) ==
    IF Truthy(data.previous_page) /\ page > 1 THEN Some(page - 1) ELSE None

SearchPreviousPage(page, data) == IF page > 1 THEN Some(page - 1) ELSE None

DirectPreviousPage(page, data) ==
    IF Truthy(data.previous_page) /\ page > 1 THEN Some(page - 1) ELSE None

SearchEnvelope(a, e) ==
    LET ticket_list == SearchTicketList(e.data.items)
    IN  [tickets |-> ticket_list,
         page |-> a.page,
         per_page |-> CapPerPage(a.per_page),
         count |-> Len(ticket_list),
         sort_by |-> a.sort_by,
         sort_order |-> a.sort_order,
         filters |-> [agent |-> a.agent,
                      organization |-> a.organization,
                      updated_since |-> EffectiveUpdatedSince(a, e),
                      last_hours |-> a.last_hours,
                      stale_hours |-> a.stale_hours,
                      include_solved |-> a.include_solved],
         has_more |-> HasMore(e.data),
         next_page |-> NextPage(a.page, e.data),
         previous_page |-> SearchPreviousPage(a.page, e.data)]

DirectEnvelope(a, e) ==
    LET ticket_list == DirectTicketList(e.data.items)
    IN  [tickets |-> ticket_list,
         page |-> a.page,
         per_page |-> CapPerPage(a.per_page),
         count |-> Len(ticket_list),
         sort_by |-> a.sort_by,
         sort_order |-> a.sort_order,
         has_more |-> HasMore(e.data),
         next_page |-> NextPage(a.page, e.data),
         previous_page |-> DirectPreviousPage(a.page, e.data)]

Returned(v) == Some([raised |-> FALSE, value |-> v])
Raised(msg) == Some([raised |-> TRUE, error |-> msg])

GetTicketsRequest(a, e) ==
    IF UseSearch(a) THEN SearchRequest(a, e) ELSE ListRequest(a)

GetTicketsResult(a, e) ==
    IF e.http = "HTTPError" THEN Raised("Failed to get tickets: HTTP")
    ELSE IF e.http = "URLError" THEN Raised("Failed to get tickets")
    ELSE IF UseSearch(a) THEN Returned(SearchEnvelope(a, e))
    ELSE Returned(DirectEnvelope(a, e))

GetTickets ==
    /\ pc = "ready"
    /\ op = "get_tickets"
    /\ request' = Some(GetTicketsRequest(args, env))
    /\ result' = GetTicketsResult(args, env)
    /\ pc' = "done"
    /\ UNCHANGED <<op, args, env, tickets, nextId, before, calls>>

---------------------------------------------------------------------------
(* Inputs of get_tickets *)

AgentValues == {None, Some(<<>>), Some(<<"4", "2">>), Some(<<" ", "7">>),
                Some(<<"J", " ", "D">>)}
OrganizationValues == {None, Some(<<>>), Some(<<"A", "c", " ">>)}
UpdatedSinceValues == {None, Some(<<>>), Some(<<"2026-02-26", " ">>)}
HoursValues == {None} \cup {Some(h) : h \in 0..MaxHours}
PageValues == 1..MaxPage
PerPageValues == {1, 25, MaxPerPage} \cup {MaxPerPage + k : k \in 1..MaxOver}
LinkValues == {None, Some(<<>>), Some(<<"https://next">>)}
HttpValues == {"ok", "HTTPError", "URLError"}
NowValues == {1000}

ResultTypeValues == {None, Some("ticket"), Some("user")}
ItemValues ==
    [id : {Some(i) : i \in 1..MaxItemId},
     subject : {None, Some(<<"S">>)},
     result_type : ResultTypeValues]

SeqsUpTo(S, n) == UNION {[1..k -> S] : k \in 0..n}

NoTickets == [i \in 1..MaxTickets |-> None]

InitList(A, E) ==
    /\ pc = "ready"
    /\ op = "get_tickets"
    /\ args \in A
    /\ env \in E
    /\ request = None
    /\ result = None
    /\ tickets = NoTickets
    /\ nextId = 1
    /\ before = NoTickets
    /\ calls = 0

\* every combination of the optional filters, first page, empty vendor answer
FilterArgs ==
    [page : {1}, per_page : {25}, sort_by : {"created_at"}, sort_order : {"desc"},
     agent : AgentValues, organization : OrganizationValues,
     updated_since : UpdatedSinceValues,
     last_hours : HoursValues, stale_hours : HoursValues,
     include_solved : BOOLEAN]

FilterEnv ==
    [now : NowValues, skew : 0..MaxSkew, http : {"ok", "HTTPError"},
     data : [items : {<<>>}, next_page : {None}, previous_page : {None}]]

InitFilter == InitList(FilterArgs, FilterEnv)

NextList == GetTickets

SpecFilter == InitFilter /\ [][NextList]_vars


\* every page, per_page and vendor pagination link, on both paths
PagingArgs ==
    [page : PageValues, per_page : PerPageValues,
     sort_by : {"created_at"}, sort_order : {"desc"},
     agent : {None, Some(<<"J", " ", "D">>)}, organization : {None},
     updated_since : {None}, last_hours : {None}, stale_hours : {None},
     include_solved : {FALSE}]

PagingEnv ==
    [now : NowValues, skew : {0}, http : HttpValues,
     data : [items : {<<>>}, next_page : LinkValues, previous_page : LinkValues]]

InitPaging == InitList(PagingArgs, PagingEnv)

SpecPaging == InitPaging /\ [][NextList]_vars

\* every vendor result list up to MaxResults entries, on both paths
ResultsArgs ==
    [page : {1}, per_page : {25}, sort_by : {"created_at"}, sort_order : {"desc"},
     agent : {None, Some(<<"4", "2">>)}, organization : {None},
     updated_since : {None}, last_hours : {None}, stale_hours : {None},
     include_solved : {FALSE}]

ResultsEnv ==
    [now : NowValues, skew : {0}, http : {"ok"},
     data : [items : SeqsUpTo(ItemValues, MaxResults),
             next_page : {None}, previous_page : {None}]]

InitResults == InitList(ResultsArgs, ResultsEnv)

SpecResults == InitResults /\ [][NextList]_vars

---------------------------------------------------------------------------
(* The vendor's tickets as the SDK shows them.  Every attribute of a ticket *)
(* is an Optional value; `comments` is the list of comments posted to it.   *)

TicketIds == 1..MaxTickets

Exists(store, id) == id \in TicketIds /\ ~IsNone(store[id])

\* self.client.tickets(id=ticket_id): the ticket, or <<>> when the SDK raises
\* (the lookup fails, or the vendor has no such ticket)
Fetch(store, id, fails) ==
    IF fails \/ IsNone(id) \/ ~Exists(store, Val(id)) THEN None
    ELSE store[Val(id)]

\* self.client.tickets.update(ticket): the vendor takes the object's attributes
Submit(store, ticket) == [store EXCEPT ![Val(ticket.id)] = Some(ticket)]

\* self.client.tickets.create(ticket): the vendor stores it under a fresh id
NewTicket(id, a) ==
    [id |-> Some(id), subject |-> a.subject, description |-> a.description,
     status |-> Some("new"), priority |-> a.priority, comments |-> <<>>]

\* the dict get_ticket returns
TicketProjection(t) ==
    [id |-> t.id, subject |-> t.subject, description |-> t.description,
     status |-> t.status, priority |-> t.priority]

(* Inputs of the ticket operations *)

CreateArgs ==
    {[subject |-> Some(<<"A">>), description |-> Some(<<"D">>), priority |-> None],
     [subject |-> Some(<<"B">>), description |-> Some(<<"E">>),
      priority |-> Some("high")]}

\* what tickets.create answers: it fails ("submit"), or the ticket is created
\* and the returned object carries the new id in .ticket.id, or only an id of
\* its own in .id, or no id; then the re-fetch may fail ("fetch")
CreateEnv ==
    {[fault |-> "submit", audit |-> [ticket_id |-> TRUE, id |-> None]]}
    \cup [fault : {"none", "fetch"},
          audit : {[ticket_id |-> TRUE, id |-> None]}
                  \cup [ticket_id : {FALSE},
                        id : {None} \cup {Some(i) : i \in TicketIds}]]

UpdateFields ==
    [subject : {None, Some(<<"C">>)}, priority : {None, Some("low")}]

(* get_ticket *)

GetTicketResult(store, a, e) ==
    LET ticket == Fetch(store, a.ticket_id, e.fault = "fetch")
    IN  IF IsNone(ticket) THEN Raised("Failed to get ticket")
        ELSE Returned(TicketProjection(Val(ticket)))

GetTicket ==
    /\ pc = "done" /\ calls < MaxCalls
    /\ \E id \in {None} \cup {Some(i) : i \in TicketIds}, f \in {"none", "fetch"} :
          /\ args' = [ticket_id |-> id]
          /\ env' = [fault |-> f]
          /\ result' = GetTicketResult(tickets, args', env')
    /\ op' = "get_ticket"
    /\ before' = tickets
    /\ calls' = calls + 1
    /\ UNCHANGED <<pc, request, tickets, nextId>>

(* post_comment *)

\* ticket.comment = Comment(html_body=comment, public=public), then the update
WithComment(t, a) ==
    [t EXCEPT !.comments = @ \o <<[html_body |-> a.comment, public |-> a.public]>>]

PostCommentStore(store, a, e) ==
    LET ticket == Fetch(store, Some(a.ticket_id), e.fault = "load")
    IN  IF IsNone(ticket) \/ e.fault = "submit" THEN store
        ELSE Submit(store, WithComment(Val(ticket), a))

PostCommentResult(store, a, e) ==
    LET ticket == Fetch(store, Some(a.ticket_id), e.fault = "load")
    IN  IF IsNone(ticket) \/ e.fault = "submit"
        THEN Raised("Failed to post comment on ticket")
        ELSE Returned(a.comment)

PostComment ==
    /\ pc = "done" /\ calls < MaxCalls
    /\ \E id \in TicketIds, f \in {"none", "load", "submit"} :
          /\ Exists(tickets, id) => Len(Val(tickets[id]).comments) < MaxComments
          /\ args' = [ticket_id |-> id, comment |-> <<"h", "i">>, public |-> TRUE]
          /\ env' = [fault |-> f]
          /\ tickets' = PostCommentStore(tickets, args', env')
          /\ result' = PostCommentResult(tickets, args', env')
    /\ op' = "post_comment"
    /\ before' = tickets
    /\ calls' = calls + 1
    /\ UNCHANGED <<pc, request, nextId>>

(* create_ticket *)

\* the id read from what tickets.create returned: created_audit.ticket.id, else
\* created_audit.id, else None
CreatedTicketId(new_id, e) ==
    IF e.audit.ticket_id THEN Some(new_id) ELSE e.audit.id

CreateTicketStore(store, new_id, a, e) ==
    IF e.fault = "submit" THEN store
    ELSE [store EXCEPT ![new_id] = Some(NewTicket(new_id, a))]

\* the returned dict: getattr(created, name, default) of the re-fetched ticket,
\* the defaults when no id was found and nothing was fetched
CreateTicketResult(store, new_id, a, e) ==
    LET after == CreateTicketStore(store, new_id, a, e)
        created_ticket_id == CreatedTicketId(new_id, e)
        created == Fetch(after, created_ticket_id, e.fault = "fetch")
    IN  IF e.fault = "submit" THEN Raised("Failed to create ticket")
        ELSE IF IsNone(created_ticket_id) \/ created_ticket_id = Some(0)
        THEN Returned([id |-> created_ticket_id, subject |-> a.subject,
                       description |-> a.description, status |-> Some("new"),
                       priority |-> a.priority])
        ELSE IF IsNone(created) THEN Raised("Failed to create ticket")
        ELSE Returned(TicketProjection(Val(created)))

CreateTicket ==
    /\ pc = "done" /\ calls < MaxCalls
    /\ nextId <= MaxTickets
    /\ \E a \in CreateArgs, e \in CreateEnv :
          /\ args' = a
          /\ env' = e
          /\ tickets' = CreateTicketStore(tickets, nextId, a, e)
          /\ result' = CreateTicketResult(tickets, nextId, a, e)
          /\ nextId' = IF e.fault = "submit" THEN nextId ELSE nextId + 1
    /\ op' = "create_ticket"
    /\ before' = tickets
    /\ calls' = calls + 1
    /\ UNCHANGED <<pc, request>>

(* update_ticket *)

\* every supplied field assigned, None included
ApplyFieldsWithNone(t, fields) ==
    [k \in DOMAIN t |-> IF k \in DOMAIN fields THEN fields[k] ELSE t[k]]

\* for key, value in fields.items(): skip None, else setattr(ticket, key, value)
ApplyFields(t, fields) ==
    [k \in DOMAIN t |->
        IF k \in DOMAIN fields /\ ~IsNone(fields[k]) THEN fields[k] ELSE t[k]]

UpdateTicketStore(store, a, e) ==
    LET ticket == Fetch(store, Some(a.ticket_id), e.fault = "load")
    IN  IF IsNone(ticket) \/ e.fault = "submit" THEN store
        ELSE Submit(store, ApplyFields(Val(ticket), a.fields))

UpdateTicketResult(store, a, e) ==
    LET ticket == Fetch(store, Some(a.ticket_id), e.fault = "load")
        after == UpdateTicketStore(store, a, e)
        refreshed == Fetch(after, Some(a.ticket_id), e.fault = "fetch")
    IN  IF IsNone(ticket) \/ e.fault = "submit" \/ IsNone(refreshed)
        THEN Raised("Failed to update ticket")
        ELSE Returned(TicketProjection(Val(refreshed)))

UpdateTicket ==
    /\ pc = "done" /\ calls < MaxCalls
    /\ \E id \in TicketIds, fs \in UpdateFields,
          f \in {"none", "load", "submit", "fetch"} :
          /\ args' = [ticket_id |-> id, fields |-> fs]
          /\ env' = [fault |-> f]
          /\ tickets' = UpdateTicketStore(tickets, args', env')
          /\ result' = UpdateTicketResult(tickets, args', env')
    /\ op' = "update_ticket"
    /\ before' = tickets
    /\ calls' = calls + 1
    /\ UNCHANGED <<pc, request, nextId>>

\* the client just constructed, against a vendor account holding no ticket or
\* one ticket
InitTickets ==
    /\ pc = "done"
    /\ op = "__init__"
    /\ args = <<>>
    /\ env = <<>>
    /\ request = None
    /\ result = None
    /\ \/ tickets = NoTickets /\ nextId = 1
       \/ \E a \in CreateArgs :
             /\ tickets = [NoTickets EXCEPT ![1] = Some(NewTicket(1, a))]
             /\ nextId = 2
    /\ before = tickets
    /\ calls = 0

NextTickets == GetTicket \/ PostComment \/ CreateTicket \/ UpdateTicket

SpecTickets == InitTickets /\ [][NextTickets]_vars

---------------------------------------------------------------------------
(* Vocabulary of the properties of get_tickets *)

Done(name) == pc = "done" /\ op = name
Ok == ~IsNone(result) /\ ~Val(result).raised
Failed == ~IsNone(result) /\ Val(result).raised
Envelope == Val(result).value
SentPath == Val(request).path
SentParams == Val(request).params
OnSearchPath == SentPath = "/search.json"
OnDirectPath == SentPath = "/tickets.json"

\* tok occurs in q as a whole space-delimited token
HasToken(q, tok) ==
    \E i \in 1..Len(q) :
        /\ i + Len(tok) - 1 <= Len(q)
        /\ SubSeq(q, i, i + Len(tok) - 1) = tok
        /\ (i = 1 \/ q[i - 1] = " ")
        /\ (i + Len(tok) - 1 = Len(q) \/ q[i + Len(tok)] = " ")

Occurrences(q, c) == Cardinality({i \in 1..Len(q) : q[i] = c})

DigitValue(c) == (CHOOSE i \in 1..Len(DigitChars) : DigitChars[i] = c) - 1

RECURSIVE DecimalValue(_)
\* the number a string of decimal digits denotes
DecimalValue(s) ==
    IF Len(s) = 0 THEN 0
    ELSE 10 * DecimalValue(SubSeq(s, 1, Len(s) - 1)) + DigitValue(s[Len(s)])

Supplied(o) == o # None
NonEmpty(o) == o # None /\ Val(o) # <<>>

---------------------------------------------------------------------------
(* Properties of get_tickets *)

AnySupplied(a) ==
    \/ Supplied(a.agent) \/ Supplied(a.organization) \/ Supplied(a.updated_since)
    \/ Supplied(a.last_hours) \/ Supplied(a.stale_hours)

AnyEffective(a) ==
    \/ NonEmpty(a.agent) \/ NonEmpty(a.organization) \/ NonEmpty(a.updated_since)
    \/ Supplied(a.last_hours) \/ Supplied(a.stale_hours)

RoutedBy(cond) ==
    /\ OnSearchPath <=> cond
    /\ OnDirectPath <=> ~cond
    /\ Ok => (("filters" \in DOMAIN Envelope) <=> cond)

\* C1 as stated: the search path is taken, and the envelope carries `filters`,
\* exactly when one of agent, organization, updated_since, last_hours,
\* stale_hours is non-null; otherwise the direct listing is requested.
C1_AsStated == Done("get_tickets") => RoutedBy(AnySupplied(args))

\* C1 amended: the search path is taken, and the envelope carries `filters`,
\* exactly when agent, organization or updated_since is a non-empty string or
\* last_hours or stale_hours is non-null (0 included); otherwise the direct
\* listing is requested and the envelope has no `filters` key.
C1_Routing == Done("get_tickets") => RoutedBy(AnyEffective(args))

\* an empty-string filter alone goes to the direct listing, an hour filter of 0
\* alone goes to search
C1_Witness ==
    /\ Done("get_tickets") /\ Ok
    /\ \/ /\ args.agent = Some(<<>>) /\ ~AnyEffective(args)
          /\ OnDirectPath /\ "filters" \notin DOMAIN Envelope
       \/ /\ args.last_hours = Some(0) /\ args.agent = None
          /\ OnSearchPath /\ "filters" \in DOMAIN Envelope

\* the timestamp of `hours` before the clock reading t, as the vendor expects it
ExpectedStamp(t, hours) == Str(t - hours) \o <<"Z">>

\* C2: with last_hours supplied, the "updated after" token of the query and the
\* updated_since echoed in `filters` are both now_utc - last_hours, whatever
\* updated_since the caller passed; the query has no other "updated after" token.
C2_LastHoursWins ==
    (Done("get_tickets") /\ Supplied(args.last_hours)) =>
        LET stamp == ExpectedStamp(env.now + env.skew, Val(args.last_hours))
        IN  /\ OnSearchPath
            /\ HasToken(SentParams.query, <<"updated>">> \o stamp)
            /\ Occurrences(SentParams.query, "updated>") = 1
            /\ Ok => Envelope.filters.updated_since = Some(stamp)

C2_Witness ==
    /\ Done("get_tickets") /\ Ok
    /\ Supplied(args.last_hours) /\ NonEmpty(args.updated_since)
    /\ Envelope.filters.updated_since # args.updated_since

\* C3: on the search path the query contains the token status<solved if and
\* only if stale_hours is supplied and include_solved is false.
C3_StatusToken ==
    (Done("get_tickets") /\ OnSearchPath) =>
        (HasToken(SentParams.query, <<"status<solved">>)
            <=> (Supplied(args.stale_hours) /\ ~args.include_solved))

C3_Witness ==
    /\ Done("get_tickets") /\ OnSearchPath
    /\ Supplied(args.stale_hours) /\ args.include_solved
    /\ Supplied(args.agent)
    /\ ~HasToken(SentParams.query, <<"status<solved">>)

Excluded(item) == Supplied(item.result_type) /\ Val(item.result_type) # "ticket"

\* the index in `items` of the k-th entry that is not excluded
KthKept(items, k) ==
    CHOOSE i \in 1..Len(items) :
        /\ ~Excluded(items[i])
        /\ Cardinality({j \in 1..i : ~Excluded(items[j])}) = k

\* C4: on the search path the returned sequence is the vendor's result list
\* without the entries whose result_type is set and not "ticket": every other
\* entry appears once, in the vendor's order, and count is the sequence length.
C4_OnlyTickets ==
    (Done("get_tickets") /\ Ok /\ OnSearchPath) =>
        LET items == env.data.items
            out == Envelope.tickets
        IN  /\ Len(out) = Cardinality({i \in 1..Len(items) : ~Excluded(items[i])})
            /\ Envelope.count = Len(out)
            /\ \A k \in 1..Len(out) :
                    /\ out[k].id = items[KthKept(items, k)].id
                    /\ out[k].subject = items[KthKept(items, k)].subject

C4_Witness ==
    /\ Done("get_tickets") /\ Ok /\ OnSearchPath
    /\ Len(env.data.items) = 2
    /\ env.data.items[1].result_type = Some("user")
    /\ env.data.items[2].result_type = None
    /\ Envelope.count = 1

\* C5: the per_page sent to the vendor never exceeds 100; a caller's
\* per_page > 100 is sent and echoed as exactly 100, a per_page <= 100 unchanged.
C5_PerPageCap ==
    Done("get_tickets") =>
        LET sent == DecimalValue(SentParams.per_page)
        IN  /\ sent <= 100
            /\ sent = (IF args.per_page > 100 THEN 100 ELSE args.per_page)
            /\ Ok => Envelope.per_page = sent

C5_Witness ==
    /\ Done("get_tickets") /\ Ok /\ args.per_page > 100
    /\ SentParams.per_page = <<"1", "0", "0">>

\* C6: previous_page is present only when page > 1 and then equals page - 1;
\* on the search path it is present exactly when page > 1, on the direct path
\* exactly when page > 1 and the vendor response carries a previous-page link.
C6_PreviousPage ==
    (Done("get_tickets") /\ Ok) =>
        LET prev == Envelope.previous_page
        IN  /\ Supplied(prev) => (args.page > 1 /\ Val(prev) = args.page - 1)
            /\ OnSearchPath => (Supplied(prev) <=> args.page > 1)
            /\ OnDirectPath =>
                   (Supplied(prev) <=>
                       (args.page > 1 /\ NonEmpty(env.data.previous_page)))

C6_Witness ==
    /\ Done("get_tickets") /\ Ok /\ OnSearchPath
    /\ args.page > 1 /\ env.data.previous_page = None
    /\ Envelope.previous_page = Some(args.page - 1)

\* C7 as stated: has_more is true iff the vendor response has a next page,
\* next_page is page + 1 under that same condition and absent otherwise, so
\* has_more is true exactly when next_page is present.
C7_AsStated ==
    (Done("get_tickets") /\ Ok) =>
        /\ Envelope.has_more <=> NonEmpty(env.data.next_page)
        /\ Envelope.next_page =
               (IF NonEmpty(env.data.next_page) THEN Some(args.page + 1) ELSE None)
        /\ Envelope.has_more <=> Supplied(Envelope.next_page)

---------------------------------------------------------------------------
(* Properties of the ticket operations *)

Mutating == {"post_comment", "create_ticket", "update_ticket"}

\* C8: after update_ticket returns, every field passed as None has, on the
\* vendor side and in the returned projection, the value it had before the
\* call; every field passed with a value has that value; no other attribute
\* and no other ticket changed.
C8_NullKeepsField ==
    (Done("update_ticket") /\ Ok) =>
        LET id == args.ticket_id
            old == Val(before[id])
            new == Val(tickets[id])
        IN  /\ \A k \in DOMAIN args.fields :
                   LET expected == IF args.fields[k] = None THEN old[k]
                                   ELSE args.fields[k]
                   IN  new[k] = expected /\ Envelope[k] = expected
            /\ \A k \in DOMAIN old \ DOMAIN args.fields : new[k] = old[k]
            /\ \A other \in TicketIds \ {id} : tickets[other] = before[other]

C8_Witness ==
    /\ Done("update_ticket") /\ Ok
    /\ args.fields.priority = None
    /\ args.fields.subject = Some(<<"C">>)
    /\ Val(before[args.ticket_id]).priority = Some("high")
    /\ Val(before[args.ticket_id]).subject = Some(<<"B">>)
    /\ Envelope.priority = Some("high")
    /\ Envelope.subject = Some(<<"C">>)

\* C9 as stated: when create_ticket returns and get_ticket is next called with
\* the returned id (and its lookup does not fail in transit), get_ticket
\* returns a projection with the subject and description passed to
\* create_ticket, also when the id came from the alternate field.  Stated for
\* the calls that return an id.
C9_AsStated ==
    [][(/\ Done("create_ticket") /\ Ok
        /\ Supplied(Envelope.id)
        /\ op' = "get_ticket"
        /\ args'.ticket_id = Envelope.id
        /\ env'.fault = "none")
       => (/\ ~Val(result').raised
           /\ Val(result').value.subject = args.subject
           /\ Val(result').value.description = args.description)]_vars

\* C10 as stated: a failure at any step makes the mutating operation raise;
\* whenever it raises the vendor's tickets are as they were before the call.
\* Stated for the calls in which tickets.create, if called, answered with the
\* new id in its primary field, so that the fallback of C9 plays no part.
C10_AsStated ==
    (/\ pc = "done" /\ op \in Mutating
     /\ op = "create_ticket" => env.audit.ticket_id) =>
        /\ env.fault # "none" => Failed
        /\ Failed => tickets = before

=============================================================================
